---- MODULE Spec2Model ----
(***************************************************************************)
(* The image registry of src/components/image-compressor.tsx (the second   *)
(* ImageCompressor component, lines 556-1302: the one with cropping).      *)
(*                                                                         *)
(* Positions are 1-based here; the JavaScript index is the position - 1.   *)
(* An optional field that is `undefined` in the code holds a sentinel of   *)
(* the same type (NoHandle, NoBlob, NoFile, NoDims, 0, FALSE, <<>>): every *)
(* test the code makes on such a field is a truthiness test, which the     *)
(* sentinel fails exactly as `undefined` does.                             *)
(*                                                                         *)
(* Closures.  Every handler is created by a render and reads the `images`  *)
(* of that render.  A handler invoked by the user is the one of the latest *)
(* render, so it reads the current registry.  The callback handed to       *)
(* setTimeout by updateImageSettings calls the updatePreview of the render *)
(* in which the edit was made: its `images` is the registry as it was      *)
(* before that edit was applied.  State updaters (setImages(prev => ...))  *)
(* always receive the current registry.                                    *)
(***************************************************************************)
EXTENDS Integers, Sequences, FiniteSets, TLC

(* ---------------------------------------------------------------- bounds *)

\* The number of user commands after ingestion (edit, remove, compress, open
\* crop, apply crop) a behaviour may contain.
MaxCommands == 3

\* The quality an item is created with.
DefaultQuality == 75

\* The speed (effort) parameter of the codec in preview mode and in final mode.
PreviewSpeed == 8
FinalSpeed == 4

(* ---------------------------------------------------------------- inputs *)

\* Values the quality slider delivers (min 1, max 100, step 1).
QualityInputs == {60, 80}

\* Texts a numeric input delivers for width and height, as character sequences.
TextInputs == {<<"2">>}

\* The numeric inputs that are edited.
TextFields == {"width"}

\* The files the user hands over, in the order the picker delivers them, each
\* once: byte size and natural dimensions.
FileInputs == <<[size |-> 9, w |-> 4, h |-> 2], [size |-> 8, w |-> 2, h |-> 4]>>

\* How many files one ingestion batch holds.
BatchSizes == {2}

\* Rectangles the crop overlay may report (x, y, width, height in pixels).
AreaInputs == {[x |-> 0, y |-> 0, width |-> 2, height |-> 2]}

\* Byte size of the PNG a crop materializes.
CropSizes == {7}

(* ------------------------------------------------------------- sentinels *)

NoHandle == [kind |-> "none", ref |-> 0, owner |-> 0]
NoFile == [id |-> 0, size |-> 0, w |-> 0, h |-> 0]
NoDims == [width |-> 0, height |-> 0]
NoBlob == [task |-> 0, file |-> 0, quality |-> 0, width |-> 0, height |-> 0,
           speed |-> 0, size |-> 0]
NoArea == [x |-> 0, y |-> 0, width |-> 0, height |-> 0]

\* The object `{ ...undefined }`: no field is set.
Blank ==
  [kind |-> "item", id |-> 0, file |-> NoFile, preview |-> NoHandle,
   compressedPreview |-> NoHandle, compressed |-> NoBlob, originalSize |-> 0,
   compressedSize |-> 0, processing |-> FALSE, dimensions |-> NoDims,
   quality |-> 0, width |-> <<>>, height |-> <<>>]

\* A position of a sparse array that holds nothing (skipped by Array.map).
Hole == [Blank EXCEPT !.kind = "hole"]

\* A position that holds the value `undefined` (visited by Array.map).
Undef == [Blank EXCEPT !.kind = "undef"]

(* ------------------------------------------------------------- variables *)

VARIABLES
  images,              \* the registry: useState<CompressedImage[]>
  previewTimeoutRefs,  \* Map<index, timeout id>, as a set of <<position, id>>
  timers,              \* the armed timeouts of the browser, with their closures
  tasks,               \* encode pipelines in flight (preview and final)
  crops,               \* applyCrop calls in flight
  batches,             \* ingestions whose dimension probes are in flight
  live,                \* object URLs created and not revoked
  revoked,             \* object URLs revoked so far
  cropModalOpen,       \* useState(false)
  currentCropIndex,    \* useState<number | null>: a position, 0 for null
  croppedAreaPixels,   \* cropState.croppedAreaPixels: an area, NoArea for null
  toast,               \* the notification raised by the latest step
  crashed,             \* a state update or the render that follows it threw
  nextFile,            \* identities of File objects
  nextTimer,           \* identities of timeouts
  nextTask,            \* identities of encode pipeline runs
  cmds,                \* user commands issued so far
  burst,               \* history: the current uninterrupted run of edits
  ingested,            \* files handed to ingestion so far
  probeFailed,         \* files whose probing Image element failed to load
  crop,                \* cropState.crop: the position of the crop overlay
  zoom,                \* cropState.zoom
  aspectRatio,         \* useState<AspectRatioState>
  opened               \* history: the last openCropModal discarded a position, a zoom,
                       \* a rectangle and a mode left by an earlier session

vars ==
  <<images, previewTimeoutRefs, timers, tasks, crops, batches, live, revoked,
    cropModalOpen, currentCropIndex, croppedAreaPixels, toast, crashed,
    nextFile, nextTimer, nextTask, cmds, burst, ingested, probeFailed,
    crop, zoom, aspectRatio, opened>>

\* The crop view state besides the selected rectangle, and its history.
cropView == <<crop, zoom, aspectRatio, opened>>

NoBurst == [id |-> 0, edits |-> 0, first |-> 0, started |-> 0]

(* ------------------------------------------------------ JavaScript arrays *)

\* arr[i] read: `undefined` outside the array and at a hole.
At(arr, i) ==
  IF i \in 1..Len(arr) /\ arr[i].kind = "item" THEN arr[i] ELSE Undef

\* [...arr]: the copy has `undefined` where arr has a hole.
Spread(arr) ==
  [k \in 1..Len(arr) |-> IF arr[k].kind = "hole" THEN Undef ELSE arr[k]]

\* arr[i] = v: a write past the end leaves holes in between.
SetAt(arr, i, v) ==
  IF i <= Len(arr)
    THEN [arr EXCEPT ![i] = v]
    ELSE arr \o [k \in 1..(i - Len(arr) - 1) |-> Hole] \o <<v>>

\* arr.splice(i, 1)
Splice(arr, i) ==
  [k \in 1..(Len(arr) - 1) |-> IF k < i THEN arr[k] ELSE arr[k + 1]]

\* The positions for which images.map renders a card.
Cards(arr) == {k \in 1..Len(arr) : arr[k].kind = "item"}

\* images.map((img, index) => ... calculateFinalDimensions(img) ...): reading
\* img.dimensions of an `undefined` element throws.
RenderThrows(arr) == \E k \in 1..Len(arr) : arr[k].kind = "undef"

(* --------------------------------------------------------------- helpers *)

\* previewTimeoutRefs.current.get(index): 0 (falsy) when the key is absent.
MapGet(m, k) == IF \E p \in m : p[1] = k THEN (CHOOSE p \in m : p[1] = k)[2] ELSE 0

\* previewTimeoutRefs.current.set(index, id)
MapSet(m, k, v) == {p \in m : p[1] # k} \cup {<<k, v>>}

\* A clearTimeout that cancels nothing.
ClearTimeoutNoop(armed, id) == armed

\* clearTimeout(id): the timeout with that id, if still armed, never fires.
ClearTimeout(armed, id) == {t \in armed : t.id # id}

\* URL.revokeObjectURL(h); a missing handle (undefined) revokes nothing.
Revoke(set, h) == IF h.kind = "none" THEN set ELSE set \ {h}

Revoked(set, h) == IF h.kind = "none" THEN set ELSE set \cup {h}

Digit(c) ==
  CASE c = "0" -> 0 [] c = "1" -> 1 [] c = "2" -> 2 [] c = "3" -> 3
    [] c = "4" -> 4 [] c = "5" -> 5 [] c = "6" -> 6 [] c = "7" -> 7
    [] c = "8" -> 8 [] c = "9" -> 9 [] OTHER -> -1

RECURSIVE ParseDigits(_, _)
\* The value of the leading digits of txt, after acc; stops at a non-digit.
ParseDigits(txt, acc) ==
  IF txt = <<>> \/ Digit(Head(txt)) < 0
    THEN acc
    ELSE ParseDigits(Tail(txt), 10 * acc + Digit(Head(txt)))

\* img.width ? Number.parseInt(img.width) : undefined.  The empty text gives
\* undefined, a text without leading digits gives NaN: both are falsy, as 0 is.
ParseTarget(txt) ==
  IF txt = <<>> THEN 0
  ELSE IF Head(txt) = "-" THEN 0 - ParseDigits(Tail(txt), 0)
  ELSE ParseDigits(txt, 0)

(* IEEE 754 double arithmetic.  A positive double is [m, e]: m is its 53-bit
   significand M as four digits of base 2^14, most significant first (so
   2^10 <= m[1] < 2^11), and its value is M * 2^(e - 52).  Every operation
   computes the exact result and rounds it to nearest, ties to even, as the
   JavaScript operators / and * do.  The integers of the model (dimensions,
   targets) are below 2^12.  The operations are functions, so that an
   argument is evaluated once. *)

Base == 16384
Top == 1024

\* Four or five digits.
Digits == Seq(Nat)

Double == [m : Digits, e : Int]

\* The number of binary digits of the integer x > 0.
BitLength == [x \in Nat |-> CHOOSE j \in 1..30 : 2^(j - 1) <= x /\ x < 2^j]

\* m + 1 unit in the last place.
Increment ==
  [m \in Digits, e \in Int |->
     IF m[4] + 1 < Base THEN [m |-> <<m[1], m[2], m[3], m[4] + 1>>, e |-> e]
     ELSE IF m[3] + 1 < Base THEN [m |-> <<m[1], m[2], m[3] + 1, 0>>, e |-> e]
     ELSE IF m[2] + 1 < Base THEN [m |-> <<m[1], m[2] + 1, 0, 0>>, e |-> e]
     ELSE IF m[1] + 1 < 2 * Top THEN [m |-> <<m[1] + 1, 0, 0, 0>>, e |-> e]
     ELSE [m |-> <<Top, 0, 0, 0>>, e |-> e + 1]]

\* The double nearest to an exact value whose first 53 binary digits are m,
\* whose next digit is guard, and which has nonzero digits after that iff
\* sticky.
RoundNearestEven ==
  [m \in Digits, guard \in {0, 1}, sticky \in BOOLEAN, e \in Int |->
     IF guard = 1 /\ (sticky \/ m[4] % 2 = 1)
       THEN Increment[m, e]
       ELSE [m |-> m, e |-> e]]

\* The exponent of a / b: the e with 2^e <= a / b < 2^(e + 1).
Exponent ==
  [a \in Nat, b \in Nat |->
     CHOOSE e \in -12..12 :
       IF e >= 0 THEN b * 2^e <= a /\ a < b * 2^(e + 1)
       ELSE b <= a * 2^(-e) /\ a * 2^(-e) < 2 * b]

\* n / d rounded to a double of exponent e, for d <= n < 2 * d: long division
\* in base 2^14.
Quotient ==
  [n \in Nat, d \in Nat, e \in Int |->
     LET x1 == n * Top
         x2 == (x1 % d) * Base
         x3 == (x2 % d) * Base
         x4 == (x3 % d) * Base
         x5 == (x4 % d) * 2
     IN RoundNearestEven[<<x1 \div d, x2 \div d, x3 \div d, x4 \div d>>,
                         x5 \div d, x5 % d # 0, e]]

\* a / b for integers a, b > 0 (both are doubles).
Divide ==
  [a \in Nat, b \in Nat |->
     IF a >= b THEN Quotient[a, b * 2^Exponent[a, b], Exponent[a, b]]
     ELSE Quotient[a * 2^(-Exponent[a, b]), b, Exponent[a, b]]]

\* The double nearest to the integer with the digits p (the first one may
\* exceed the base by k binary digits), scaled by 2^(e - 52).
Normalize ==
  [p \in Digits, k \in 0..13, e \in Int |->
     LET low == 2^k
         high == 2^(14 - k)
         dropped == p[4] % low
     IN RoundNearestEven[<<p[1] \div low,
                           (p[1] % low) * high + p[2] \div low,
                           (p[2] % low) * high + p[3] \div low,
                           (p[3] % low) * high + p[4] \div low>>,
                         IF k = 0 THEN 0 ELSE dropped \div 2^(k - 1),
                         k > 0 /\ dropped % 2^(k - 1) # 0,
                         e + k]]

\* The digits of M * n for the significand m of M.
Product ==
  [m \in Digits, n \in Nat |->
     LET p4 == m[4] * n
         p3 == m[3] * n + p4 \div Base
         p2 == m[2] * n + p3 \div Base
         p1 == m[1] * n + p2 \div Base
     IN <<p1, p2 % Base, p3 % Base, p4 % Base>>]

\* The digits p, with the number of binary digits the first has too many.
Normalized == [p \in Digits, e \in Int |-> Normalize[p, BitLength[p[1]] - 11, e]]

\* f * n for a double f and an integer n > 0.
Times == [f \in Double, n \in Nat |-> Normalized[Product[f.m, n], f.e]]

(* Unsigned integers below 2^56 as four digits of base 2^14 (the first digit
   may exceed the base): the remainders of a division by a significand. *)

BigGeq ==
  [x \in Digits, y \in Digits |->
     \/ x[1] > y[1]
     \/ x[1] = y[1] /\ x[2] > y[2]
     \/ x[1] = y[1] /\ x[2] = y[2] /\ x[3] > y[3]
     \/ x[1] = y[1] /\ x[2] = y[2] /\ x[3] = y[3] /\ x[4] >= y[4]]

\* x - y for x >= y.
BigSub ==
  [x \in Digits, y \in Digits |->
     LET b4 == IF x[4] < y[4] THEN 1 ELSE 0
         b3 == IF x[3] < y[3] + b4 THEN 1 ELSE 0
         b2 == IF x[2] < y[2] + b3 THEN 1 ELSE 0
     IN <<x[1] - y[1] - b2,
          x[2] + b2 * Base - y[2] - b3,
          x[3] + b3 * Base - y[3] - b4,
          x[4] + b4 * Base - y[4]>>]

\* 2 * x
BigDouble ==
  [x \in Digits |->
     LET c4 == 2 * x[4]
         c3 == 2 * x[3] + c4 \div Base
         c2 == 2 * x[2] + c3 \div Base
     IN <<2 * x[1] + c2 \div Base, c2 % Base, c3 % Base, c4 % Base>>]

\* One more binary digit of r / d after the digits q, for the doubled
\* remainder x = 2 * r.
BigStep ==
  [x \in Digits, q \in Nat, d \in Digits |->
     IF BigGeq[x, d] THEN [q |-> 2 * q + 1, r |-> BigSub[x, d]]
     ELSE [q |-> 2 * q, r |-> x]]

\* n more binary digits of r / d (r < d), after the digits q, and the
\* remainder.
BigLongDiv[r \in Digits, q \in Nat, d \in Digits, n \in Nat] ==
  IF n = 0 THEN [q |-> q, r |-> r]
  ELSE LET s == BigStep[BigDouble[r], q, d]
       IN BigLongDiv[s.r, s.q, d, n - 1]

\* The binary digits of r / d (r < d), collected into digits of base 2^14 of
\* the sizes given, after the digits m.
BigQuotient[r \in Digits, m \in Digits, d \in Digits, sizes \in Digits] ==
  IF sizes = <<>> THEN [m |-> m, r |-> r]
  ELSE LET s == BigLongDiv[r, IF m = <<>> THEN 1 ELSE 0, d, Head(sizes)]
       IN BigQuotient[s.r, Append(m, s.q), d, Tail(sizes)]

\* x / d for x with the binary length of d and at least d, to a double of
\* exponent e: the quotient is 1 and 52 digits, then the guard digit.
OverSignificand ==
  [x \in Digits, d \in Digits, e \in Int |->
     LET s == BigQuotient[BigSub[x, d], <<>>, d, <<10, 14, 14, 14, 1>>]
     IN RoundNearestEven[SubSeq(s.m, 1, 4), s.m[5], s.r # <<0, 0, 0, 0>>, e]]

\* n as an integer of 53 binary digits, for n of len binary digits.
Wide ==
  [n \in Nat, len \in Nat |->
     IF len <= 11 THEN <<n * 2^(11 - len), 0, 0, 0>>
     ELSE <<n \div 2^(len - 11), (n % 2^(len - 11)) * 2^(25 - len), 0, 0>>]

\* x / d for x and d of 53 binary digits, to a double of exponent e if x >= d.
OverWide ==
  [x \in Digits, d \in Digits, e \in Int |->
     IF BigGeq[x, d] THEN OverSignificand[x, d, e]
     ELSE OverSignificand[BigDouble[x], d, e - 1]]

\* n / f for an integer n > 0 and a double f: binary long division.
Over ==
  [n \in Nat, f \in Double |->
     OverWide[Wide[n, BitLength[n]], f.m, BitLength[n] - 1 - f.e]]

\* Math.round(f) for a double f > 0 below 2^25: the nearest integer, halves
\* upwards.
MathRound ==
  [f \in Double |->
     IF f.e < -1 THEN 0
     ELSE IF f.e = -1 THEN 1
     ELSE IF f.e < 10
       THEN f.m[1] \div 2^(10 - f.e) + ((f.m[1] \div 2^(9 - f.e)) % 2)
     ELSE IF f.e = 10 THEN f.m[1] + f.m[2] \div 2^13
     ELSE IF f.e < 24
       THEN f.m[1] * 2^(f.e - 10) + f.m[2] \div 2^(24 - f.e)
              + ((f.m[2] \div 2^(23 - f.e)) % 2)
     ELSE f.m[1] * 2^14 + f.m[2] + f.m[3] \div 2^13]

(* ------------------------------------------------------ the crop view *)

\* cropState.crop as openCropModal sets it.
NoCrop == [x |-> 0, y |-> 0]

\* undefined, where a ratio is expected.
NoRatio == [m |-> <<>>, e |-> 0]

\* NaN
NotANumber == [nan |-> TRUE, n |-> 0, d |-> 1]

\* The length of the run of decimal digits txt starts with.
LeadingDigits(txt) ==
  CHOOSE k \in 0..Len(txt) :
    /\ \A j \in 1..k : Digit(txt[j]) >= 0
    /\ k = Len(txt) \/ Digit(txt[k + 1]) < 0

\* Number.parseFloat of a text without sign: digits, then a point and digits.
\* The value is n / d; NaN when there is no digit.
ParseUnsigned(txt) ==
  LET whole == LeadingDigits(txt)
      rest == SubSeq(txt, whole + 1, Len(txt))
      fraction == IF rest # <<>> /\ Head(rest) = "." THEN LeadingDigits(Tail(rest))
                  ELSE 0
  IN IF whole = 0 /\ fraction = 0 THEN NotANumber
     ELSE [nan |-> FALSE,
           n |-> ParseDigits(SubSeq(txt, 1, whole) \o SubSeq(rest, 2, fraction + 1), 0),
           d |-> 10^fraction]

\* Number.parseFloat(txt)
ParseFloat(txt) ==
  IF txt # <<>> /\ Head(txt) = "-"
    THEN [ParseUnsigned(Tail(txt)) EXCEPT !.n = 0 - @]
    ELSE ParseUnsigned(txt)

\* presetAspectRatios
PresetAspectRatios ==
  <<[label |-> "1:1", value |-> Divide[1, 1]],
    [label |-> "4:5", value |-> Divide[4, 5]],
    [label |-> "5:4", value |-> Divide[5, 4]],
    [label |-> "16:9", value |-> Divide[16, 9]],
    [label |-> "9:16", value |-> Divide[9, 16]],
    [label |-> "3:2", value |-> Divide[3, 2]],
    [label |-> "2:3", value |-> Divide[2, 3]]>>

\* The aspect ratio state of a fresh component and of openCropModal.
FreeAspect ==
  [type |-> "free", value |-> NoRatio,
   customWidth |-> <<"1", "6">>, customHeight |-> <<"9">>]

\* calculateCustomAspectRatio().  A comparison with NaN is false.  The texts
\* of the model parse to numbers a double holds exactly, so the quotient of
\* the two doubles is the rounded quotient of the two fractions.
CalculateCustomAspectRatio ==
  LET width == ParseFloat(aspectRatio.customWidth)
      height == ParseFloat(aspectRatio.customHeight)
  IN IF (~width.nan /\ width.n > 0) /\ (~height.nan /\ height.n > 0)
       THEN Divide[width.n * height.d, height.n * width.d]
       ELSE NoRatio

\* A getCurrentAspectRatio that hands out the stored value in every mode but
\* Free.
GetStoredAspectRatio ==
  IF aspectRatio.type = "free" THEN NoRatio ELSE aspectRatio.value

\* getCurrentAspectRatio(): the `aspect` the Cropper is rendered with.
GetCurrentAspectRatio ==
  IF aspectRatio.type = "free" THEN NoRatio
  ELSE IF aspectRatio.type = "preset" THEN aspectRatio.value
  ELSE IF aspectRatio.type = "custom" THEN CalculateCustomAspectRatio
  ELSE NoRatio

\* The crop view state of a fresh component.
CropViewInit ==
  /\ crop = NoCrop
  /\ zoom = 1
  /\ aspectRatio = FreeAspect
  /\ opened = FALSE

\* The output width of compressImageWithJSquash for a w x h bitmap.
FinalWidth(w, h, tw, th) ==
  IF tw # 0 THEN tw
  ELSE IF th # 0 THEN MathRound[Times[Divide[w, h], th]]
  ELSE w

\* The output height of compressImageWithJSquash for a w x h bitmap.
FinalHeight(w, h, tw, th) ==
  IF th # 0 THEN th
  ELSE IF tw # 0 THEN MathRound[Times[Divide[h, w], tw]]
  ELSE h

\* calculateFinalDimensions(img), the dimensions a card displays; NoDims for
\* null.
CalculateFinalDimensions(img) ==
  LET targetWidth == ParseTarget(img.width)
      targetHeight == ParseTarget(img.height)
  IN IF img.dimensions = NoDims THEN NoDims
     ELSE IF targetWidth = 0 /\ targetHeight = 0 THEN img.dimensions
     ELSE IF targetWidth # 0 /\ targetHeight # 0
       THEN [width |-> targetWidth, height |-> targetHeight]
     ELSE IF targetWidth # 0
       THEN [width |-> targetWidth,
             height |-> MathRound[Over[targetWidth,
                          Divide[img.dimensions.width, img.dimensions.height]]]]
     ELSE [width |-> MathRound[Times[Divide[img.dimensions.width,
                                            img.dimensions.height], targetHeight]],
           height |-> targetHeight]

SrcHandle(file, owner) == [kind |-> "src", ref |-> file.id, owner |-> owner]
ProbeHandle(file, owner) == [kind |-> "probe", ref |-> file.id, owner |-> owner]
OutHandle(t) == [kind |-> "out", ref |-> t.id, owner |-> t.owner]

\* The object literal built for one ingested file.
NewItem(file) ==
  [Blank EXCEPT !.id = file.id, !.file = file,
                !.preview = SrcHandle(file, file.id),
                !.originalSize = file.size,
                !.dimensions = [width |-> file.w, height |-> file.h],
                !.quality = DefaultQuality]

\* { ...e, <fields> } starts from e, or from nothing when e is undefined.
Obj(e) == IF e.kind = "item" THEN e ELSE Blank

\* The state the hook holds after an updater returned `new`, and whether the
\* render that follows throws.
Commit(new) ==
  /\ images' = new
  /\ crashed' = RenderThrows(new)

\* An updater threw: the update is lost and the component tree is torn down.
Abort ==
  /\ images' = images
  /\ crashed' = TRUE

\* A user can act on the page: it is up, and the crop dialog (modal) is closed.
PageUsable == ~crashed /\ ~cropModalOpen /\ cmds < MaxCommands

(* ------------------------------------------------------------------ Init *)

Init ==
  /\ images = <<>>
  /\ previewTimeoutRefs = {}
  /\ timers = {}
  /\ tasks = {}
  /\ crops = {}
  /\ batches = {}
  /\ live = {}
  /\ revoked = {}
  /\ cropModalOpen = FALSE
  /\ currentCropIndex = 0
  /\ croppedAreaPixels = NoArea
  /\ toast = "none"
  /\ crashed = FALSE
  /\ nextFile = 1
  /\ nextTimer = 1
  /\ nextTask = 1
  /\ cmds = 0
  /\ burst = NoBurst
  /\ ingested = 0
  /\ probeFailed = {}
  /\ CropViewInit

(* ------------------------------------------------------------- ingestion *)

\* handleFileInput / handleDrop up to the first suspension: for every file an
\* object URL for the preview and, inside getImageDimensions, a second one
\* for the probing Image element.
HandleFileInput(n) ==
  /\ ~crashed /\ ~cropModalOpen
  /\ ingested + n <= Len(FileInputs)
  /\ LET files == [k \in 1..n |-> [id |-> nextFile + k - 1,
                                   size |-> FileInputs[ingested + k].size,
                                   w |-> FileInputs[ingested + k].w,
                                   h |-> FileInputs[ingested + k].h]]
         made == UNION {{SrcHandle(files[k], files[k].id),
                         ProbeHandle(files[k], files[k].id)} : k \in 1..n}
     IN /\ batches' = batches \cup {files}
        /\ live' = live \cup made
        /\ nextFile' = nextFile + n
  /\ ingested' = ingested + n
  /\ burst' = NoBurst
  /\ toast' = "none"
  /\ UNCHANGED probeFailed
  /\ UNCHANGED cropView
  /\ UNCHANGED <<images, previewTimeoutRefs, timers, tasks, crops, revoked,
                 cropModalOpen, currentCropIndex, croppedAreaPixels, crashed,
                 nextTimer, nextTask, cmds>>

\* The probing Image element of the k-th file of a batch fails to load (the
\* file is not a decodable image).  getImageDimensions sets no onerror: its
\* promise never settles, and neither does the Promise.all of the batch.
ImageError(files, k) ==
  /\ ~crashed
  /\ files \in batches
  /\ k \in 1..Len(files)
  /\ files[k].id \notin probeFailed
  /\ probeFailed' = probeFailed \cup {files[k].id}
  /\ toast' = "none"
  /\ UNCHANGED cropView
  /\ UNCHANGED <<images, previewTimeoutRefs, timers, tasks, crops, batches,
                 live, revoked, cropModalOpen, currentCropIndex,
                 croppedAreaPixels, crashed, nextFile, nextTimer, nextTask,
                 cmds, burst, ingested>>

\* img.onload of the last probe of a batch: Promise.all resolves and the
\* handler appends the batch, setImages(prev => [...prev, ...newImages]).
\* (The earlier onloads of the batch change nothing but the promise.)
ImagesLoaded(files) ==
  /\ ~crashed
  /\ files \in batches
  /\ \A k \in 1..Len(files) : files[k].id \notin probeFailed
  /\ batches' = batches \ {files}
  /\ Commit(Spread(images) \o [j \in 1..Len(files) |-> NewItem(files[j])])
  /\ toast' = "none"
  /\ UNCHANGED probeFailed
  /\ UNCHANGED cropView
  /\ UNCHANGED <<previewTimeoutRefs, timers, tasks, crops, live, revoked,
                 cropModalOpen, currentCropIndex, croppedAreaPixels,
                 nextFile, nextTimer, nextTask, cmds, burst, ingested>>

(* -------------------------------------------------------------- updaters *)

\* (prev) => { newImages[index] = { ...newImages[index], [field]: value } }
SettingsUpdater(prev, i, field, value) ==
  LET e == Obj(At(Spread(prev), i))
  IN SetAt(Spread(prev), i,
           CASE field = "quality" -> [e EXCEPT !.quality = value]
             [] field = "width" -> [e EXCEPT !.width = value]
             [] field = "height" -> [e EXCEPT !.height = value])

\* (prev) => { newImages[index] = { ...newImages[index], processing: flag } }
ProcessingUpdater(prev, i, flag) ==
  SetAt(Spread(prev), i, [Obj(At(Spread(prev), i)) EXCEPT !.processing = flag])

\* newImages[index].compressedPreview reads a property of `undefined`.
UpdaterThrows(prev, i) == At(Spread(prev), i).kind # "item"

\* A preview result stored without clearing the processing flag.
PreviewResultKeepsProcessing(prev, i, h, blob) ==
  SetAt(Spread(prev), i,
        [At(prev, i) EXCEPT !.compressedPreview = h,
                            !.compressedSize = blob.size])

\* A preview result stored over the final artifact.
PreviewResultClearsFinal(prev, i, h, blob) ==
  SetAt(Spread(prev), i,
        [At(prev, i) EXCEPT !.compressedPreview = h,
                            !.compressedSize = blob.size,
                            !.compressed = NoBlob,
                            !.processing = FALSE])

\* The preview result of updatePreview stored at position i.
PreviewResultUpdater(prev, i, h, blob) ==
  SetAt(Spread(prev), i,
        [At(prev, i) EXCEPT !.compressedPreview = h,
                            !.compressedSize = blob.size,
                            !.processing = FALSE])

\* The final result of compressImage stored at position i.
CompressResultUpdater(prev, i, h, blob) ==
  SetAt(Spread(prev), i,
        [At(prev, i) EXCEPT !.compressed = blob,
                            !.compressedSize = blob.size,
                            !.compressedPreview = h,
                            !.processing = FALSE])

\* newImages.splice(index, 1)
RemoveUpdater(prev, i) == Splice(Spread(prev), i)

\* A removal that revokes the source handle only.
RemoveRevokesSourceOnly(e) == {e.preview} \ {NoHandle}

\* The handles removeImage revokes for the entry e.
RemoveRevokes(e) == {e.preview, e.compressedPreview} \ {NoHandle}

(* ----------------------------------------------------- debounce scheduler *)

\* The edit is one of an uninterrupted run of edits of the same item whose
\* latest timer is still armed.
ContinuesBurst(i) ==
  /\ burst.edits >= 1
  /\ burst.id = images[i].id
  /\ \E t \in timers : t.id = MapGet(previewTimeoutRefs, i) /\ t.id >= burst.first

\* updateImageSettings(index, field, value)
UpdateImageSettings(i, field, value) ==
  /\ PageUsable
  /\ i \in Cards(images)
  /\ CASE field = "quality" -> images[i].quality # value
       [] field = "width" -> images[i].width # value
       [] field = "height" -> images[i].height # value
  /\ Commit(SettingsUpdater(images, i, field, value))
  /\ timers' = ClearTimeout(timers, MapGet(previewTimeoutRefs, i))
                 \cup {[id |-> nextTimer, index |-> i, img |-> At(images, i)]}
  /\ previewTimeoutRefs' = MapSet(previewTimeoutRefs, i, nextTimer)
  /\ nextTimer' = nextTimer + 1
  /\ burst' = IF images[i].id = 0 THEN NoBurst
              ELSE IF ContinuesBurst(i) THEN [burst EXCEPT !.edits = @ + 1]
              ELSE [id |-> images[i].id, edits |-> 1, first |-> nextTimer,
                    started |-> 0]
  /\ cmds' = cmds + 1
  /\ toast' = "none"
  /\ UNCHANGED probeFailed
  /\ UNCHANGED cropView
  /\ UNCHANGED <<tasks, crops, batches, live, revoked, cropModalOpen,
                 currentCropIndex, croppedAreaPixels, nextFile, nextTask, ingested>>

\* The encode pipeline run that a handler starts for the entry img it read.
NewTask(kind, i, img, tm) ==
  [id |-> nextTask, kind |-> kind, index |-> i, owner |-> img.id,
   file |-> img.file, quality |-> img.quality,
   tw |-> ParseTarget(img.width), th |-> ParseTarget(img.height),
   timer |-> tm]

\* The timeout fires: updatePreview(index) up to its first suspension.  `img`
\* is read from the registry the closure holds.
TimerFire(tm) ==
  /\ ~crashed
  /\ tm \in timers
  /\ timers' = timers \ {tm}
  /\ IF tm.img.kind # "item"
       THEN UNCHANGED <<images, crashed, tasks, nextTask, burst>>
       ELSE /\ Commit(ProcessingUpdater(images, tm.index, TRUE))
            /\ tasks' = tasks \cup {NewTask("preview", tm.index, tm.img, tm.id)}
            /\ nextTask' = nextTask + 1
            /\ burst' = IF burst.edits >= 1 /\ tm.id >= burst.first
                          THEN [burst EXCEPT !.started = @ + 1]
                          ELSE burst
  /\ toast' = "none"
  /\ UNCHANGED probeFailed
  /\ UNCHANGED cropView
  /\ UNCHANGED <<previewTimeoutRefs, crops, batches, live, revoked,
                 cropModalOpen, currentCropIndex, croppedAreaPixels,
                 nextFile, nextTimer, cmds, ingested>>

(* --------------------------------------------------------- encode pipeline *)

Speed(t) == IF t.kind = "preview" THEN PreviewSpeed ELSE FinalSpeed

\* The byte length of encode(pixels, {quality, speed}).  The codec is pure: the
\* length is a function of its inputs, here one that tells apart the
\* qualities and the speeds the model uses.
EncodedSize(quality, speed) ==
  2 * (quality \div 10) + (IF speed = FinalSpeed THEN 1 ELSE 0)

\* new Blob([avifData]) for the run t.
Blob(t) ==
  [task |-> t.id, file |-> t.file.id, quality |-> t.quality,
   width |-> FinalWidth(t.file.w, t.file.h, t.tw, t.th),
   height |-> FinalHeight(t.file.w, t.file.h, t.tw, t.th),
   speed |-> Speed(t), size |-> EncodedSize(t.quality, Speed(t))]

\* createImageBitmap(file) resolves only for a file, and the canvas delivers
\* pixel data only for a positive extent.
CanEncode(t) ==
  /\ t.file.id # 0
  /\ FinalWidth(t.file.w, t.file.h, t.tw, t.th) > 0
  /\ FinalHeight(t.file.w, t.file.h, t.tw, t.th) > 0

\* compressImageWithJSquash resolved inside updatePreview.
PreviewOk(t) ==
  /\ ~crashed
  /\ t \in tasks /\ t.kind = "preview"
  /\ CanEncode(t)
  /\ tasks' = tasks \ {t}
  /\ IF UpdaterThrows(images, t.index)
       THEN /\ Abort
            /\ live' = live \cup {OutHandle(t)}
            /\ UNCHANGED revoked
       ELSE /\ Commit(PreviewResultUpdater(images, t.index, OutHandle(t), Blob(t)))
            /\ live' = Revoke(live, At(images, t.index).compressedPreview)
                         \cup {OutHandle(t)}
            /\ revoked' = Revoked(revoked, At(images, t.index).compressedPreview)
  /\ toast' = "none"
  /\ UNCHANGED probeFailed
  /\ UNCHANGED cropView
  /\ UNCHANGED <<previewTimeoutRefs, timers, crops, batches, cropModalOpen,
                 currentCropIndex, croppedAreaPixels, nextFile, nextTimer,
                 nextTask, cmds, burst, ingested>>

\* compressImageWithJSquash rejected inside updatePreview: the catch block.
PreviewFail(t) ==
  /\ ~crashed
  /\ t \in tasks /\ t.kind = "preview"
  /\ tasks' = tasks \ {t}
  /\ Commit(ProcessingUpdater(images, t.index, FALSE))
  /\ toast' = "none"
  /\ UNCHANGED probeFailed
  /\ UNCHANGED cropView
  /\ UNCHANGED <<previewTimeoutRefs, timers, crops, batches, live, revoked,
                 cropModalOpen, currentCropIndex, croppedAreaPixels,
                 nextFile, nextTimer, nextTask, cmds, burst, ingested>>

\* compressImage(index) up to its first suspension.  The button is rendered
\* while the item has no final artifact and is disabled while processing.
CompressImage(i) ==
  /\ PageUsable
  /\ i \in Cards(images)
  /\ images[i].compressed = NoBlob
  /\ ~images[i].processing
  /\ Commit(ProcessingUpdater(images, i, TRUE))
  /\ tasks' = tasks \cup {NewTask("final", i, At(images, i), 0)}
  /\ nextTask' = nextTask + 1
  /\ cmds' = cmds + 1
  /\ burst' = NoBurst
  /\ toast' = "none"
  /\ UNCHANGED probeFailed
  /\ UNCHANGED cropView
  /\ UNCHANGED <<previewTimeoutRefs, timers, crops, batches, live, revoked,
                 cropModalOpen, currentCropIndex, croppedAreaPixels,
                 nextFile, nextTimer, ingested>>

\* compressImageWithJSquash resolved inside compressImage.
CompressOk(t) ==
  /\ ~crashed
  /\ t \in tasks /\ t.kind = "final"
  /\ CanEncode(t)
  /\ tasks' = tasks \ {t}
  /\ IF UpdaterThrows(images, t.index)
       THEN /\ Abort
            /\ live' = live \cup {OutHandle(t)}
            /\ UNCHANGED revoked
       ELSE /\ Commit(CompressResultUpdater(images, t.index, OutHandle(t), Blob(t)))
            /\ live' = Revoke(live, At(images, t.index).compressedPreview)
                         \cup {OutHandle(t)}
            /\ revoked' = Revoked(revoked, At(images, t.index).compressedPreview)
  /\ toast' = "compressOk"
  /\ UNCHANGED probeFailed
  /\ UNCHANGED cropView
  /\ UNCHANGED <<previewTimeoutRefs, timers, crops, batches, cropModalOpen,
                 currentCropIndex, croppedAreaPixels, nextFile, nextTimer,
                 nextTask, cmds, burst, ingested>>

\* compressImageWithJSquash rejected inside compressImage: the catch block.
CompressFail(t) ==
  /\ ~crashed
  /\ t \in tasks /\ t.kind = "final"
  /\ tasks' = tasks \ {t}
  /\ Commit(ProcessingUpdater(images, t.index, FALSE))
  /\ toast' = "compressError"
  /\ UNCHANGED probeFailed
  /\ UNCHANGED cropView
  /\ UNCHANGED <<previewTimeoutRefs, timers, crops, batches, live, revoked,
                 cropModalOpen, currentCropIndex, croppedAreaPixels,
                 nextFile, nextTimer, nextTask, cmds, burst, ingested>>

(* --------------------------------------------------------------- removal *)

\* removeImage(index)
RemoveImage(i) ==
  /\ PageUsable
  /\ i \in Cards(images)
  /\ Commit(RemoveUpdater(images, i))
  /\ live' = live \ RemoveRevokes(images[i])
  /\ revoked' = revoked \cup RemoveRevokes(images[i])
  /\ cmds' = cmds + 1
  /\ burst' = NoBurst
  /\ toast' = "none"
  /\ UNCHANGED probeFailed
  /\ UNCHANGED cropView
  /\ UNCHANGED <<previewTimeoutRefs, timers, tasks, crops, batches,
                 cropModalOpen, currentCropIndex, croppedAreaPixels,
                 nextFile, nextTimer, nextTask, ingested>>

(* ------------------------------------------------------------------ crop *)

\* An openCropModal that leaves the aspect ratio state of the earlier session.
OpenCropModalKeepsRatio(i) ==
  /\ PageUsable
  /\ i \in Cards(images)
  /\ ~images[i].processing
  /\ currentCropIndex' = i
  /\ croppedAreaPixels' = NoArea
  /\ crop' = NoCrop
  /\ zoom' = 1
  /\ UNCHANGED aspectRatio
  /\ opened' = (/\ crop # NoCrop /\ zoom # 1 /\ croppedAreaPixels # NoArea
                /\ aspectRatio.type # "free")
  /\ cropModalOpen' = TRUE
  /\ cmds' = cmds + 1
  /\ burst' = NoBurst
  /\ toast' = "none"
  /\ UNCHANGED probeFailed
  /\ UNCHANGED <<images, previewTimeoutRefs, timers, tasks, crops, batches,
                 live, revoked, crashed, nextFile, nextTimer, nextTask, ingested>>

\* openCropModal(index); the button is disabled while the item is processing.
OpenCropModal(i) ==
  /\ PageUsable
  /\ i \in Cards(images)
  /\ ~images[i].processing
  /\ currentCropIndex' = i
  /\ croppedAreaPixels' = NoArea
  /\ crop' = NoCrop
  /\ zoom' = 1
  /\ aspectRatio' = FreeAspect
  /\ opened' = (/\ crop # NoCrop /\ zoom # 1 /\ croppedAreaPixels # NoArea
                /\ aspectRatio.type # "free")
  /\ cropModalOpen' = TRUE
  /\ cmds' = cmds + 1
  /\ burst' = NoBurst
  /\ toast' = "none"
  /\ UNCHANGED probeFailed
  /\ UNCHANGED <<images, previewTimeoutRefs, timers, tasks, crops, batches,
                 live, revoked, crashed, nextFile, nextTimer, nextTask, ingested>>

\* onCropComplete of the Cropper, which is rendered while the dialog is open
\* and images[currentCropIndex] exists.
OnCropComplete(area) ==
  /\ ~crashed /\ cropModalOpen
  /\ At(images, currentCropIndex).kind = "item"
  /\ area # croppedAreaPixels
  /\ croppedAreaPixels' = area
  /\ toast' = "none"
  /\ UNCHANGED probeFailed
  /\ UNCHANGED cropView
  /\ UNCHANGED <<images, previewTimeoutRefs, timers, tasks, crops, batches,
                 live, revoked, cropModalOpen, currentCropIndex, crashed,
                 nextFile, nextTimer, nextTask, cmds, burst, ingested>>

\* The Cancel button and the dialog's onOpenChange: setCropModalOpen(false).
CancelCrop ==
  /\ ~crashed /\ cropModalOpen
  /\ cropModalOpen' = FALSE
  /\ toast' = "none"
  /\ UNCHANGED probeFailed
  /\ UNCHANGED cropView
  /\ UNCHANGED <<images, previewTimeoutRefs, timers, tasks, crops, batches,
                 live, revoked, currentCropIndex, croppedAreaPixels, crashed,
                 nextFile, nextTimer, nextTask, cmds, burst, ingested>>

\* onCropChange of the Cropper: the overlay was dragged.
OnCropChange(c) ==
  /\ ~crashed /\ cropModalOpen
  /\ At(images, currentCropIndex).kind = "item"
  /\ c # crop
  /\ crop' = c
  /\ UNCHANGED <<zoom, aspectRatio>>
  /\ toast' = "none"
  /\ UNCHANGED <<images, previewTimeoutRefs, timers, tasks, crops, batches,
                 live, revoked, cropModalOpen, currentCropIndex,
                 croppedAreaPixels, crashed, nextFile, nextTimer, nextTask,
                 cmds, burst, ingested, probeFailed, opened>>

\* onZoomChange of the Cropper and onValueChange of the zoom slider.
OnZoomChange(z) ==
  /\ ~crashed /\ cropModalOpen
  /\ z # zoom
  /\ zoom' = z
  /\ UNCHANGED <<crop, aspectRatio>>
  /\ toast' = "none"
  /\ UNCHANGED <<images, previewTimeoutRefs, timers, tasks, crops, batches,
                 live, revoked, cropModalOpen, currentCropIndex,
                 croppedAreaPixels, crashed, nextFile, nextTimer, nextTask,
                 cmds, burst, ingested, probeFailed, opened>>

\* The button "Libre".
SelectFree ==
  /\ ~crashed /\ cropModalOpen
  /\ aspectRatio.type # "free"
  /\ aspectRatio' = [aspectRatio EXCEPT !.type = "free", !.value = NoRatio]
  /\ UNCHANGED <<crop, zoom>>
  /\ toast' = "none"
  /\ UNCHANGED <<images, previewTimeoutRefs, timers, tasks, crops, batches,
                 live, revoked, cropModalOpen, currentCropIndex,
                 croppedAreaPixels, crashed, nextFile, nextTimer, nextTask,
                 cmds, burst, ingested, probeFailed, opened>>

\* The button of the preset p.
SelectPreset(p) ==
  /\ ~crashed /\ cropModalOpen
  /\ ~(aspectRatio.type = "preset" /\ aspectRatio.value = PresetAspectRatios[p].value)
  /\ aspectRatio' = [aspectRatio EXCEPT !.type = "preset",
                                        !.value = PresetAspectRatios[p].value]
  /\ UNCHANGED <<crop, zoom>>
  /\ toast' = "none"
  /\ UNCHANGED <<images, previewTimeoutRefs, timers, tasks, crops, batches,
                 live, revoked, cropModalOpen, currentCropIndex,
                 croppedAreaPixels, crashed, nextFile, nextTimer, nextTask,
                 cmds, burst, ingested, probeFailed, opened>>

\* The button "Personalizado".
SelectCustom ==
  /\ ~crashed /\ cropModalOpen
  /\ aspectRatio.type # "custom"
  /\ aspectRatio' = [aspectRatio EXCEPT !.type = "custom"]
  /\ UNCHANGED <<crop, zoom>>
  /\ toast' = "none"
  /\ UNCHANGED <<images, previewTimeoutRefs, timers, tasks, crops, batches,
                 live, revoked, cropModalOpen, currentCropIndex,
                 croppedAreaPixels, crashed, nextFile, nextTimer, nextTask,
                 cmds, burst, ingested, probeFailed, opened>>

\* onChange of the custom width input (field "customWidth") or of the custom
\* height input (field "customHeight").
SetCustom(field, txt) ==
  /\ ~crashed /\ cropModalOpen
  /\ aspectRatio[field] # txt
  /\ aspectRatio' = [aspectRatio EXCEPT ![field] = txt, !.type = "custom"]
  /\ UNCHANGED <<crop, zoom>>
  /\ toast' = "none"
  /\ UNCHANGED <<images, previewTimeoutRefs, timers, tasks, crops, batches,
                 live, revoked, cropModalOpen, currentCropIndex,
                 croppedAreaPixels, crashed, nextFile, nextTimer, nextTask,
                 cmds, burst, ingested, probeFailed, opened>>

\* applyCrop up to its first suspension (createCroppedImage).
ApplyCrop ==
  /\ ~crashed /\ cropModalOpen /\ cmds < MaxCommands
  /\ currentCropIndex # 0 /\ croppedAreaPixels # NoArea
  /\ At(images, currentCropIndex).kind = "item"
  /\ crops' = crops \cup {[file |-> nextFile, index |-> currentCropIndex,
                           owner |-> At(images, currentCropIndex).id,
                           src |-> At(images, currentCropIndex).preview,
                           area |-> croppedAreaPixels]}
  /\ nextFile' = nextFile + 1
  /\ cmds' = cmds + 1
  /\ burst' = NoBurst
  /\ toast' = "none"
  /\ UNCHANGED probeFailed
  /\ UNCHANGED cropView
  /\ UNCHANGED <<images, previewTimeoutRefs, timers, tasks, batches, live,
                 revoked, cropModalOpen, currentCropIndex, croppedAreaPixels,
                 crashed, nextTimer, nextTask, ingested>>

\* new File([blob], "cropped-image.png") for the crop c of `size` bytes.
CroppedFile(c, size) ==
  [id |-> c.file, size |-> size, w |-> c.area.width, h |-> c.area.height]

\* The entry applyCrop stores: the cropped image is the new original.
CropUpdater(prev, i, file, newPreview) ==
  SetAt(Spread(prev), i,
        [At(prev, i) EXCEPT !.file = file,
                            !.preview = newPreview,
                            !.originalSize = file.size,
                            !.dimensions = [width |-> file.w, height |-> file.h],
                            !.compressedPreview = NoHandle,
                            !.compressed = NoBlob,
                            !.compressedSize = 0])

\* The handles applyCrop revokes for the entry e.
CropRevokes(e) == {e.preview, e.compressedPreview} \ {NoHandle}

\* createCroppedImage and getImageDimensions resolved: the rest of the try
\* block of applyCrop.
CropOk(c, size) ==
  /\ ~crashed
  /\ c \in crops
  /\ crops' = crops \ {c}
  /\ LET file == CroppedFile(c, size)
         made == {SrcHandle(file, c.owner), ProbeHandle(file, c.owner)}
     IN IF UpdaterThrows(images, c.index)
          THEN /\ Abort
               /\ live' = live \cup made
               /\ UNCHANGED revoked
          ELSE /\ Commit(CropUpdater(images, c.index, file, SrcHandle(file, c.owner)))
               /\ live' = (live \ CropRevokes(At(images, c.index))) \cup made
               /\ revoked' = revoked \cup CropRevokes(At(images, c.index))
  /\ cropModalOpen' = FALSE
  /\ currentCropIndex' = 0
  /\ toast' = "cropOk"
  /\ UNCHANGED probeFailed
  /\ UNCHANGED cropView
  /\ UNCHANGED <<previewTimeoutRefs, timers, tasks, batches,
                 croppedAreaPixels, nextFile, nextTimer, nextTask, cmds, burst, ingested>>

\* A catch block of applyCrop that releases the source handle of the item.
CropFailRevoking(c) ==
  /\ ~crashed
  /\ c \in crops
  /\ crops' = crops \ {c}
  /\ live' = live \ {c.src}
  /\ revoked' = revoked \cup {c.src}
  /\ toast' = "cropError"
  /\ UNCHANGED probeFailed
  /\ UNCHANGED cropView
  /\ UNCHANGED <<images, previewTimeoutRefs, timers, tasks, batches,
                 cropModalOpen, currentCropIndex, croppedAreaPixels,
                 crashed, nextFile, nextTimer, nextTask, cmds, burst, ingested>>

\* createCroppedImage rejected: the catch block of applyCrop.
CropFail(c) ==
  /\ ~crashed
  /\ c \in crops
  /\ crops' = crops \ {c}
  /\ toast' = "cropError"
  /\ UNCHANGED probeFailed
  /\ UNCHANGED cropView
  /\ UNCHANGED <<images, previewTimeoutRefs, timers, tasks, batches, live,
                 revoked, cropModalOpen, currentCropIndex, croppedAreaPixels,
                 crashed, nextFile, nextTimer, nextTask, cmds, burst, ingested>>

(* ------------------------------------------------------------------ Next *)

Positions == 1..Len(FileInputs)

Next ==
  \/ \E n \in BatchSizes : HandleFileInput(n)
  \/ \E files \in batches : ImagesLoaded(files)
  \/ \E files \in batches, k \in Positions : ImageError(files, k)
  \/ \E i \in Positions, v \in QualityInputs : UpdateImageSettings(i, "quality", v)
  \/ \E i \in Positions, f \in TextFields, v \in TextInputs :
       UpdateImageSettings(i, f, v)
  \/ \E tm \in timers : TimerFire(tm)
  \/ \E t \in tasks : PreviewOk(t)
  \/ \E t \in tasks : PreviewFail(t)
  \/ \E i \in Positions : CompressImage(i)
  \/ \E t \in tasks : CompressOk(t)
  \/ \E t \in tasks : CompressFail(t)
  \/ \E i \in Positions : RemoveImage(i)
  \/ \E i \in Positions : OpenCropModal(i)
  \/ \E area \in AreaInputs : OnCropComplete(area)
  \/ CancelCrop
  \/ ApplyCrop
  \/ \E c \in crops, size \in CropSizes : CropOk(c, size)
  \/ \E c \in crops : CropFail(c)

Spec == Init /\ [][Next]_vars

(* ------------------------------------------------------------- progress *)

\* The steps of executions in which every preview encode call succeeds.
LiveNext ==
  \/ \E n \in BatchSizes : HandleFileInput(n)
  \/ \E files \in batches : ImagesLoaded(files)
  \/ \E files \in batches, k \in Positions : ImageError(files, k)
  \/ \E i \in Positions, v \in QualityInputs : UpdateImageSettings(i, "quality", v)
  \/ \E i \in Positions, f \in TextFields, v \in TextInputs :
       UpdateImageSettings(i, f, v)
  \/ \E tm \in timers : TimerFire(tm)
  \/ \E t \in tasks : PreviewOk(t)
  \/ \E i \in Positions : CompressImage(i)
  \/ \E t \in tasks : CompressOk(t)
  \/ \E t \in tasks : CompressFail(t)
  \/ \E i \in Positions : RemoveImage(i)
  \/ \E i \in Positions : OpenCropModal(i)
  \/ \E area \in AreaInputs : OnCropComplete(area)
  \/ CancelCrop
  \/ ApplyCrop
  \/ \E c \in crops, size \in CropSizes : CropOk(c, size)
  \/ \E c \in crops : CropFail(c)

\* The browser runs what is ready: a batch whose probes all loaded is
\* appended, an armed timeout fires, a preview encode call returns.
LiveSpec ==
  /\ Init
  /\ [][LiveNext]_vars
  /\ WF_vars(\E files \in batches : ImagesLoaded(files))
  /\ WF_vars(\E tm \in timers : TimerFire(tm))
  /\ WF_vars(\E t \in tasks : PreviewOk(t))

(* ------------------------------------------------- a registry of three *)

\* Three files of an earlier ingestion, with the identities they were given.
EditFiles ==
  <<[id |-> 1, size |-> 9, w |-> 4, h |-> 2],
    [id |-> 2, size |-> 8, w |-> 2, h |-> 4],
    [id |-> 3, size |-> 7, w |-> 2, h |-> 2]>>

EditPositions == 1..Len(EditFiles)

\* The state after EditFiles were ingested in one batch: handleFileInput ran
\* to its end and nothing else happened.
EditInit ==
  /\ images = [k \in EditPositions |-> NewItem(EditFiles[k])]
  /\ previewTimeoutRefs = {}
  /\ timers = {}
  /\ tasks = {}
  /\ crops = {}
  /\ batches = {}
  /\ live = UNION {{SrcHandle(EditFiles[k], k), ProbeHandle(EditFiles[k], k)}
                     : k \in EditPositions}
  /\ revoked = {}
  /\ cropModalOpen = FALSE
  /\ currentCropIndex = 0
  /\ croppedAreaPixels = NoArea
  /\ toast = "none"
  /\ crashed = FALSE
  /\ nextFile = Len(EditFiles) + 1
  /\ nextTimer = 1
  /\ nextTask = 1
  /\ cmds = 0
  /\ burst = NoBurst
  /\ ingested = Len(EditFiles)
  /\ probeFailed = {}
  /\ CropViewInit

\* Edits, removals, and the timers and preview runs they cause.
EditNext ==
  \/ \E i \in EditPositions, v \in QualityInputs : UpdateImageSettings(i, "quality", v)
  \/ \E i \in EditPositions, f \in TextFields, v \in TextInputs :
       UpdateImageSettings(i, f, v)
  \/ \E tm \in timers : TimerFire(tm)
  \/ \E t \in tasks : PreviewOk(t)
  \/ \E t \in tasks : PreviewFail(t)
  \/ \E i \in EditPositions : RemoveImage(i)

EditSpec == EditInit /\ [][EditNext]_vars

(* ------------------------------------------------ one item, any targets *)

\* Original dimensions of the one file.
OriginalInputs ==
  {[w |-> 1000, h |-> 500], [w |-> 18, h |-> 7], [w |-> 22, h |-> 15],
   [w |-> 15, h |-> 22], [w |-> 40, h |-> 1]}

\* Texts typed into the width and height inputs; the empty text clears one.
ResolverTexts == {<<>>, <<"9">>, <<"1", "1">>, <<"4", "0", "0">>}

\* The state after one file of dimensions d was ingested.
ResolverInitOf(d) ==
  LET file == [id |-> 1, size |-> 9, w |-> d.w, h |-> d.h]
  IN /\ images = <<NewItem(file)>>
     /\ previewTimeoutRefs = {}
     /\ timers = {}
     /\ tasks = {}
     /\ crops = {}
     /\ batches = {}
     /\ live = {SrcHandle(file, 1), ProbeHandle(file, 1)}
     /\ revoked = {}
     /\ cropModalOpen = FALSE
     /\ currentCropIndex = 0
     /\ croppedAreaPixels = NoArea
     /\ toast = "none"
     /\ crashed = FALSE
     /\ nextFile = 2
     /\ nextTimer = 1
     /\ nextTask = 1
     /\ cmds = 0
     /\ burst = NoBurst
     /\ ingested = 1
     /\ probeFailed = {}
     /\ CropViewInit

ResolverInit == \E d \in OriginalInputs : ResolverInitOf(d)

\* Edits of the two targets, and the encodes that resolve them.
ResolverNext ==
  \/ \E v \in ResolverTexts : UpdateImageSettings(1, "width", v)
  \/ \E v \in ResolverTexts : UpdateImageSettings(1, "height", v)
  \/ \E tm \in timers : TimerFire(tm)
  \/ \E t \in tasks : PreviewOk(t)
  \/ CompressImage(1)
  \/ \E t \in tasks : CompressOk(t)

ResolverSpec == ResolverInit /\ [][ResolverNext]_vars

(* --------------------------------------------- one item, signed targets *)

\* Texts a number input delivers: it has no min attribute, so a sign passes.
TargetTexts == {<<>>, <<"2">>, <<"-", "2">>}

\* Edits of the two targets, the timers they arm and the pipeline runs that
\* receive the targets, up to the failure of a run.
TargetNext ==
  \/ \E v \in TargetTexts : UpdateImageSettings(1, "width", v)
  \/ \E v \in TargetTexts : UpdateImageSettings(1, "height", v)
  \/ \E tm \in timers : TimerFire(tm)
  \/ \E t \in tasks : PreviewFail(t)
  \/ CompressImage(1)
  \/ \E t \in tasks : CompressFail(t)

TargetSpec == ResolverInit /\ [][TargetNext]_vars

(* ------------------------------------------------------ crop sessions *)

\* Positions the overlay is dragged to, zoom values, and texts typed into the
\* custom ratio inputs.
CropInputs == {[x |-> 1, y |-> 1]}
ZoomInputs == {2}
CustomWidths == {<<>>, <<"0">>, <<"3">>}
CustomHeights == {<<"-", "1">>, <<"2">>}
PresetInputs == {2, 4}

\* One ingested item.
CropViewFile == [w |-> 4, h |-> 2]

\* Crop sessions on the item: opening, the controls of the dialog, closing
\* and applying.
CropViewNext ==
  \/ OpenCropModal(1)
  \/ \E area \in AreaInputs : OnCropComplete(area)
  \/ \E c \in CropInputs : OnCropChange(c)
  \/ \E z \in ZoomInputs : OnZoomChange(z)
  \/ SelectFree
  \/ \E p \in PresetInputs : SelectPreset(p)
  \/ SelectCustom
  \/ \E txt \in CustomWidths : SetCustom("customWidth", txt)
  \/ \E txt \in CustomHeights : SetCustom("customHeight", txt)
  \/ CancelCrop
  \/ ApplyCrop
  \/ \E c \in crops, size \in CropSizes : CropOk(c, size)
  \/ \E c \in crops : CropFail(c)

CropViewSpec == ResolverInitOf(CropViewFile) /\ [][CropViewNext]_vars

(* ---------------------------------------------------------------- claims *)

\* The entries of the registry that are items, in registry order.
IsItem(e) == e.kind = "item"
Items(arr) == SelectSeq(arr, IsItem)

\* The positions at which the item with identity id stands.
PositionsOf(arr, id) == {k \in Cards(arr) : arr[k].id = id /\ id # 0}

\* The encode pipeline run t ended in this step without an artifact.
Failed(t) == t \in tasks /\ t \notin tasks' /\ OutHandle(t) \notin live'

\* The encode pipeline run t delivered its artifact in this step.
Delivered(t) == t \in tasks /\ t \notin tasks' /\ OutHandle(t) \in live'

\* C1: when an item's debounce timer fires, the preview encode it starts uses
\* the quality, width and height the item has at that moment.
C1_FireUsesLatestSettings ==
  [][\A t \in tasks' \ tasks :
       t.kind = "preview" =>
         \A k \in PositionsOf(images, t.owner) :
           /\ t.quality = images[k].quality
           /\ t.tw = ParseTarget(images[k].width)
           /\ t.th = ParseTarget(images[k].height)]_vars

\* C2: a run of N >= 1 edits of one item, each made while the timer of the
\* previous one is armed and with no other command in between, starts exactly
\* one preview regeneration: none while the run's timer is armed (and then it
\* is the only armed timer of the run), one once it has fired.
C2_BurstOneRegeneration ==
  burst.edits >= 1 =>
    LET armed == {t \in timers : t.id >= burst.first}
    IN IF armed # {}
         THEN burst.started = 0 /\ Cardinality(armed) = 1
         ELSE burst.started = 1

\* C2 witness: a run of two or more edits whose single regeneration started.
C2_Witness == burst.edits >= 2 /\ burst.started = 1 /\ ~crashed

\* C3: a preview result that arrives while the item displays the result of a
\* run started later is discarded: the displayed preview and size stay.
C3_StaleResultDiscarded ==
  [][\A t \in tasks :
       (t.kind = "preview" /\ Delivered(t)) =>
         \A k \in PositionsOf(images, t.owner) :
           (images[k].compressedPreview.kind = "out"
              /\ images[k].compressedPreview.ref > t.id) =>
             /\ k \in Cards(images')
             /\ images'[k].compressedPreview = images[k].compressedPreview
             /\ images'[k].compressedSize = images[k].compressedSize]_vars

\* The identities of the items ingested so far.
ItemIds == 1..ingested

\* The live compressed-artifact handles created for the item id.
LiveArtifacts(id) == {h \in live : h.kind = "out" /\ h.owner = id}

\* C4: at most one compressed-artifact handle created for an item is live.
C4_OneLiveArtifactPerItem ==
  \A id \in ItemIds : Cardinality(LiveArtifacts(id)) <= 1

\* The entries of arr without the j-th.
Without(arr, j) == [k \in 1..(Len(arr) - 1) |-> IF k < j THEN arr[k] ELSE arr[k + 1]]

\* C5: a removal deletes exactly one item, revokes that item's source handle
\* and its preview/final handle, and leaves the other items, their fields,
\* their handles and their order as they were.
C5_RemoveExactlyOne ==
  [][Len(images') < Len(images) =>
       \E j \in 1..Len(Items(images)) :
         LET e == Items(images)[j]
         IN /\ Items(images') = Without(Items(images), j)
            /\ e.preview \notin live'
            /\ e.compressedPreview \notin live'
            /\ live' = live \ {e.preview, e.compressedPreview}]_vars

\* C5 witness: one of two ingested items was removed while it held a preview;
\* the other is still in the registry with its source handle live.
C5_Witness ==
  /\ ~crashed /\ Len(images) = 1 /\ images[1].preview \in live
  /\ \E h \in revoked : h.kind = "out" /\ h.owner # images[1].id
  /\ \E h \in revoked : h.kind = "src" /\ h.owner # images[1].id

\* The handles the registry holds.
Held == UNION {{images[k].preview, images[k].compressedPreview} : k \in Cards(images)}

\* The handles of work that has not delivered its result yet: the previews and
\* probes of a batch being ingested.
InFlightHandles ==
  UNION {UNION {{SrcHandle(files[k], files[k].id),
                 ProbeHandle(files[k], files[k].id)} : k \in 1..Len(files)}
           : files \in batches}

\* C6: no handle leaks: every live handle is held by an item of the registry
\* or belongs to work that has not delivered its result.
C6_NoHandleLeak == live \subseteq (Held \cup InFlightHandles)

\* The crop c completed successfully in this step.
Cropped(c) ==
  /\ c \in crops /\ c \notin crops'
  /\ SrcHandle([id |-> c.file], c.owner) \in live'
  /\ ~crashed'

\* The crop c failed in this step: nothing was materialized.
CropFailed(c) ==
  /\ c \in crops /\ c \notin crops'
  /\ SrcHandle([id |-> c.file], c.owner) \notin live'

\* C7: after a successful applyCrop the item's source is the cropped image,
\* its preview, final artifact and compressed size are unset, the old source
\* and preview handles are revoked, and it is not processing.
C7_CropResets ==
  [][\A c \in crops :
       Cropped(c) =>
         LET old == images[c.index]
             new == images'[c.index]
         IN /\ new.file.id = c.file
            /\ new.preview = SrcHandle(new.file, c.owner)
            /\ new.originalSize = new.file.size
            /\ new.dimensions = [width |-> c.area.width, height |-> c.area.height]
            /\ new.compressedPreview = NoHandle
            /\ new.compressed = NoBlob
            /\ new.compressedSize = 0
            /\ old.preview \notin live'
            /\ old.compressedPreview \notin live'
            /\ ~new.processing]_vars

\* C8: a failed crop raises an error notification and changes neither the
\* registry nor any handle.
C8_CropFailureLeavesRegistry ==
  [][\A c \in crops :
       CropFailed(c) =>
         /\ toast' = "cropError"
         /\ images' = images
         /\ live' = live
         /\ revoked' = revoked]_vars

\* C8 witness: a crop of an item that holds a preview has just failed.
C8_Witness ==
  /\ toast = "cropError" /\ ~crashed
  /\ \E k \in Cards(images) : images[k].compressedPreview \in live

\* C9: when the encode pipeline fails for an item, the item keeps its
\* settings, its preview handle and its size, ends not processing, and no
\* other entry of the registry changes.
C9_EncodeFailureKeepsItem ==
  [][\A t \in tasks :
       Failed(t) =>
         /\ Len(images') = Len(images)
         /\ \A k \in 1..Len(images) :
              IF k \in PositionsOf(images, t.owner)
                THEN images'[k] = [images[k] EXCEPT !.processing = FALSE]
                ELSE images'[k] = images[k]
         /\ PositionsOf(images, t.owner) # {}]_vars

\* C10: every failure of the encode pipeline and every crop failure raises
\* an error notification.
C10_FailureNotifies ==
  [][/\ \A t \in tasks : Failed(t) => toast' = "compressError"
     /\ \A c \in crops : CropFailed(c) => toast' = "cropError"]_vars

\* C11: no state update and no render ever throws: a result, a failure or a
\* timer that arrives for a position that holds no item is dropped instead.
C11_NeverAborts == ~crashed

\* The step from registry arr to registry new changed no entry but those of
\* the item id.
TouchesOnly(arr, new, id) ==
  /\ Len(new) = Len(arr)
  /\ \A k \in 1..Len(arr) :
       new[k] # arr[k] => (arr[k].kind = "item" /\ arr[k].id = id /\ id # 0)

\* The timeout tm fired in this step (it was not cleared by an edit).
Fired(tm) == tm \in timers /\ tm \notin timers' /\ nextTimer' = nextTimer

\* C13: a timer fire and a task result or failure change no entry of the
\* registry but the one of the item they were dispatched for.
C13_ResultReachesItsItem ==
  [][/\ \A t \in tasks : t \notin tasks' => TouchesOnly(images, images', t.owner)
     /\ \A tm \in timers : Fired(tm) => TouchesOnly(images, images', tm.img.id)]_vars

\* The armed timeouts whose callback was created for the item id.
TimersOf(id) == {tm \in timers : tm.img.id = id}

\* C15: every item has at most one armed timer, and every armed timer belongs
\* to an item that is in the registry.
C15_OneTimerPerItem ==
  /\ \A id \in ItemIds : Cardinality(TimersOf(id)) <= 1
  /\ \A tm \in timers : tm.img.id # 0 => PositionsOf(images, tm.img.id) # {}

\* The status of the entry e, given the armed timers tms and the runs tks.
Status(e, tms, tks) ==
  IF e.processing /\ \E t \in tks : t.kind = "final" /\ t.owner = e.id
    THEN "Finalizing"
  ELSE IF \/ \E tm \in tms : tm.img.id = e.id
          \/ \E t \in tks : t.kind = "preview" /\ t.owner = e.id
    THEN "PreviewPending"
  ELSE IF e.compressed # NoBlob THEN "Final"
  ELSE IF e.compressedPreview # NoHandle THEN "PreviewReady"
  ELSE "Idle"

\* The status transitions of an item, besides staying where it is.
Transitions ==
  {<<"Idle", "PreviewPending">>, <<"PreviewPending", "Idle">>,
   <<"PreviewPending", "PreviewReady">>, <<"PreviewReady", "PreviewPending">>,
   <<"PreviewReady", "Finalizing">>, <<"Finalizing", "Final">>}

\* C16: in a step without a pipeline or crop failure every item that stays in
\* the registry keeps its status or moves along one of the transitions; so a
\* final run only starts for an item that is in PreviewReady.
C16_StatusTransitions ==
  [][((\A t \in tasks : ~Failed(t)) /\ (\A c \in crops : c \in crops') /\ ~crashed')
       => \A id \in ItemIds :
            \A k \in PositionsOf(images, id), n \in PositionsOf(images', id) :
              LET old == Status(images[k], timers, tasks)
                  new == Status(images'[n], timers', tasks')
              IN old = new \/ <<old, new>> \in Transitions]_vars

\* The entry e is being finalized.
Finalizing(e) == e.processing /\ e.compressed = NoBlob

\* C17: while the encode call of a final run has not returned, its item stays
\* processing and without a final artifact.
C17_HungEncodeStaysFinalizing ==
  [][\A t \in tasks \cap tasks' :
       t.kind = "final" =>
         \A k \in PositionsOf(images, t.owner), n \in PositionsOf(images', t.owner) :
           Finalizing(images[k]) => Finalizing(images'[n])]_vars

\* C14: an edit of one item clears no timer armed for another item that is in
\* the registry, and when the timer of an item that is in the registry fires,
\* the preview run it starts is that item's: the item becomes processing.
C14_EditsIndependent ==
  [][/\ \A tm \in timers \ timers', nt \in timers' \ timers :
          PositionsOf(images, tm.img.id) # {} => nt.img.id = tm.img.id
     /\ \A tm \in timers :
          (Fired(tm) /\ PositionsOf(images, tm.img.id) # {}) =>
            \A k \in PositionsOf(images', tm.img.id) : images'[k].processing]_vars

\* The item id was edited once, and that edit is the only command so far.
EditedOnce(id) == cmds = 1 /\ burst.id = id /\ burst.edits = 1

\* The item id shows a preview: it is not processing and holds a live
\* preview handle and a compressed size.
PreviewReady(id) ==
  \E k \in PositionsOf(images, id) :
    /\ ~images[k].processing
    /\ images[k].compressedPreview # NoHandle
    /\ images[k].compressedPreview \in live
    /\ images[k].compressedSize > 0

\* C18: after one edit of an ingested item, unless a further command is
\* issued, the item eventually shows a preview.
C18_EditLeadsToPreview ==
  \A id \in Positions : EditedOnce(id) ~> (PreviewReady(id) \/ cmds > 1)

\* C18 witness: the preview of the only edit made so far has arrived.
C18_Witness ==
  \E id \in Positions : EditedOnce(id) /\ PreviewReady(id) /\ tasks = {} /\ timers = {}

\* The files a and b are in one pending batch, the probe of a failed and the
\* probe of b did not.
StuckBehind(a, b) ==
  /\ a \in probeFailed /\ b \notin probeFailed
  /\ \E files \in batches :
       \E j, k \in 1..Len(files) : files[j].id = a /\ files[k].id = b

\* C19: when the probe of one file of a batch fails, every other file of the
\* batch is eventually added to the registry (unless its own probe fails).
C19_IngestFailureIsLocal ==
  \A a, b \in Positions :
    StuckBehind(a, b) ~> (PositionsOf(images, b) # {} \/ b \in probeFailed)

\* C20: a final run starts in the step of the command, without a timer, in
\* final mode and with the quality and targets its item has; when it delivers
\* its artifact the item holds that artifact, its size and its handle and is
\* not processing.
C20_CompressFinalizes ==
  [][/\ \A t \in tasks' \ tasks :
          t.kind = "final" =>
            /\ t.timer = 0 /\ timers' = timers /\ cmds' = cmds + 1
            /\ Blob(t).speed = FinalSpeed
            /\ \A k \in PositionsOf(images, t.owner) :
                 /\ t.quality = images[k].quality
                 /\ t.tw = ParseTarget(images[k].width)
                 /\ t.th = ParseTarget(images[k].height)
     /\ \A t \in tasks :
          (t.kind = "final" /\ Delivered(t)) =>
            \A k \in PositionsOf(images, t.owner) :
              /\ k \in PositionsOf(images', t.owner)
              /\ images'[k].compressed = Blob(t)
              /\ images'[k].compressedSize = Blob(t).size
              /\ images'[k].compressedPreview = OutHandle(t)
              /\ ~images'[k].processing]_vars

\* round(n / d) for integers n >= 0, d > 0: the nearest integer, a half
\* upwards as Math.round takes it.
Round(n, d) == (2 * n + d) \div (2 * d)

\* The reference resolution of a w x h original under the targets tw, th
\* (0: not given).
Reference(w, h, tw, th) ==
  IF tw = 0 /\ th = 0 THEN [width |-> w, height |-> h]
  ELSE IF tw # 0 /\ th # 0 THEN [width |-> tw, height |-> th]
  ELSE IF tw # 0 THEN [width |-> tw, height |-> Round(h * tw, w)]
  ELSE [width |-> Round(w * th, h), height |-> th]

\* The dimensions calculateFinalDimensions shows for the entry e are the
\* reference's.
DisplayedAsReference(e) ==
  CalculateFinalDimensions(e)
    = Reference(e.dimensions.width, e.dimensions.height,
                ParseTarget(e.width), ParseTarget(e.height))

\* The dimensions the encode pipeline gave the artifact of the run t are the
\* reference's.
EncodedAsReference(t) ==
  [width |-> Blob(t).width, height |-> Blob(t).height]
    = Reference(t.file.w, t.file.h, t.tw, t.th)

\* C12: for every original and every combination of targets, the dimensions a
\* card displays and the dimensions of every artifact an encode delivers are
\* those of the reference resolution: the original when no target is given, the
\* two targets when both are, and otherwise the given target with the other
\* side round(h * targetW / w) or round(w * targetH / h).
C12_ResolversMatchReference ==
  [][/\ \A k \in Cards(images') : DisplayedAsReference(images'[k])
     /\ \A t \in tasks : Delivered(t) => EncodedAsReference(t)]_vars

\* C12, the displayed resolver alone.
C12_DisplayMatchesReference ==
  [][\A k \in Cards(images') : DisplayedAsReference(images'[k])]_vars

\* C12, the pipeline's resolver alone.
C12_PipelineMatchesReference ==
  [][\A t \in tasks : Delivered(t) => EncodedAsReference(t)]_vars

\* C12, without the reference: an artifact has the dimensions its card
\* displays for the same settings.
C12_ResolversAgree ==
  [][\A t \in tasks : Delivered(t) =>
       \A k \in Cards(images) :
         (/\ images[k].file = t.file
          /\ ParseTarget(images[k].width) = t.tw
          /\ ParseTarget(images[k].height) = t.th)
         => /\ CalculateFinalDimensions(images[k]).width = Blob(t).width
            /\ CalculateFinalDimensions(images[k]).height = Blob(t).height]_vars

\* The qualities the slider can deliver: min 1, max 100, step 1.
InRange(q) == q \in 1..100

\* C22: the quality of every item of the registry is an integer of 1..100, and
\* so is the quality of every pipeline run that gets as far as the encoder.
C22_QualityInRange ==
  /\ \A k \in Cards(images) : InRange(images[k].quality)
  /\ \A t \in tasks : CanEncode(t) => InRange(t.quality)

\* The entry e is a fully formed item: it has source bytes, a live source
\* handle, an original size and a quality.
FullyFormed(e) ==
  /\ e.kind = "item"
  /\ e.id # 0
  /\ e.file # NoFile
  /\ e.preview \in live
  /\ e.originalSize > 0
  /\ InRange(e.quality)

\* The step is the end of an ingestion that adds its files to the registry.
Ingests ==
  \E files \in batches :
    /\ files \notin batches'
    /\ Len(images') = Len(images) + Len(files)
    /\ \A id \in ItemIds' :
         (PositionsOf(images', id) # {} /\ PositionsOf(images, id) = {})
           => \E k \in 1..Len(files) : files[k].id = id

\* The step is a removal command that takes one entry out of the registry.
Removes ==
  /\ cmds' = cmds + 1
  /\ Len(images') = Len(images) - 1
  /\ \A id \in ItemIds : PositionsOf(images, id) = {} => PositionsOf(images', id) = {}

\* C29: every entry of the registry is a fully formed item.
C29_EntriesFullyFormed == \A k \in 1..Len(images) : FullyFormed(images[k])

\* C29: the number of entries changes only by an ingestion (plus its files)
\* and by a removal (minus one), and an item that is not in the registry
\* only enters it by an ingestion.
C29_EntriesChangeByIngestAndRemove ==
  [][\/ Ingests
     \/ Removes
     \/ /\ Len(images') = Len(images)
        /\ \A id \in ItemIds : PositionsOf(images, id) = {} => PositionsOf(images', id) = {}]_vars

\* C29: both parts, as one property of every step.
C29_RegistryWellFormed ==
  [][/\ C29_EntriesFullyFormed'
     /\ \/ Ingests
        \/ Removes
        \/ /\ Len(images') = Len(images)
           /\ \A id \in ItemIds :
                PositionsOf(images, id) = {} => PositionsOf(images', id) = {}]_vars

\* The text is empty or the decimal digits of a non-negative integer.
NonNegativeText(txt) == \A k \in 1..Len(txt) : Digit(txt[k]) >= 0

\* C21: the requested width and height of every item are empty or a
\* non-negative integer, and every pipeline run was handed targets that are
\* not negative.
C21_TargetsNeverNegative ==
  /\ \A k \in Cards(images) :
       /\ NonNegativeText(images[k].width) /\ ParseTarget(images[k].width) >= 0
       /\ NonNegativeText(images[k].height) /\ ParseTarget(images[k].height) >= 0
  /\ \A t \in tasks : t.tw >= 0 /\ t.th >= 0

\* C21, the pipeline alone: no run is handed a negative target.
C21_NoNegativeTargetInPipeline == \A t \in tasks : t.tw >= 0 /\ t.th >= 0

\* Both sides of the dimensions d are integers of at least 1.
Positive(d) == d.width \in Nat \ {0} /\ d.height \in Nat \ {0}

\* C30: for a positive original and targets that are absent or positive, the
\* dimensions a card displays and the dimensions the encode pipeline resolves
\* for a run are both at least 1 x 1.
C30_ResolvedAtLeastOne ==
  /\ \A k \in Cards(images) :
       (ParseTarget(images[k].width) >= 0 /\ ParseTarget(images[k].height) >= 0)
         => Positive(CalculateFinalDimensions(images[k]))
  /\ \A t \in tasks :
       (t.tw >= 0 /\ t.th >= 0)
         => Positive([width |-> FinalWidth(t.file.w, t.file.h, t.tw, t.th),
                      height |-> FinalHeight(t.file.w, t.file.h, t.tw, t.th)])

\* C30, the pipeline's resolver alone.
C30_PipelineAtLeastOne ==
  \A t \in tasks :
    (t.tw >= 0 /\ t.th >= 0)
      => Positive([width |-> FinalWidth(t.file.w, t.file.h, t.tw, t.th),
                   height |-> FinalHeight(t.file.w, t.file.h, t.tw, t.th)])

\* The source of the entry e was replaced by applyCrop: its file is not the
\* file it was ingested with.
SourceReplaced(e) == e.kind = "item" /\ e.id # 0 /\ e.file.id # e.id

\* C25: an artifact that a pipeline run attaches to an item whose source
\* applyCrop has replaced was encoded from that new source, not from the
\* source the item had when the timer was armed or the run was started.
C25_ArtifactFromCroppedSource ==
  [][\A t \in tasks :
       Delivered(t) =>
         \A k \in Cards(images') :
           (images'[k].compressedPreview = OutHandle(t) /\ SourceReplaced(images'[k]))
             => t.file = images'[k].file]_vars

\* The handle h is the object URL made for the artifact b.
RefersTo(h, b) == h.kind = "out" /\ h.ref = b.task

\* C26: while an item holds a final artifact, its compressedSize is the byte
\* size of that artifact and its compressedPreview is the handle of that
\* artifact.
C26_DisplayedIsDownloadable ==
  \A k \in Cards(images) :
    images[k].compressed # NoBlob =>
      /\ images[k].compressedSize = images[k].compressed.size
      /\ RefersTo(images[k].compressedPreview, images[k].compressed)

\* C27: while an item holds a final artifact, the artifact was encoded with
\* the quality the item has now and has the dimensions its current requested
\* width and height resolve to.
C27_DownloadMatchesSettings ==
  \A k \in Cards(images) :
    images[k].compressed # NoBlob =>
      /\ images[k].compressed.quality = images[k].quality
      /\ images[k].compressed.width
           = FinalWidth(images[k].file.w, images[k].file.h,
                        ParseTarget(images[k].width), ParseTarget(images[k].height))
      /\ images[k].compressed.height
           = FinalHeight(images[k].file.w, images[k].file.h,
                         ParseTarget(images[k].width), ParseTarget(images[k].height))

\* The pipeline runs in flight for the item id.
RunsOf(id) == {t \in tasks : t.owner = id /\ id # 0}

\* C28: an item is processing while a pipeline run for it is in flight.
C28_ProcessingWhileInFlight ==
  \A id \in ItemIds : \A k \in PositionsOf(images, id) :
    RunsOf(id) # {} => images[k].processing

\* C28: at most one final run per item is in flight.
C28_OneFinalRunPerItem ==
  \A id \in ItemIds : Cardinality({t \in RunsOf(id) : t.kind = "final"}) <= 1

\* C28: the crop view is never opened on an item with a run in flight.
C28_NoCropDuringRun ==
  [][(~cropModalOpen /\ cropModalOpen')
       => RunsOf(At(images, currentCropIndex').id) = {}]_vars

\* C28: the three parts together.
C28_ProcessingGuardsRuns ==
  [][/\ C28_ProcessingWhileInFlight'
     /\ C28_OneFinalRunPerItem'
     /\ (~cropModalOpen /\ cropModalOpen')
          => RunsOf(At(images, currentCropIndex').id) = {}]_vars

(* ------------------------------------------------------------- C23, C24 *)

\* The presets whose button is shown selected.
SelectedPresets ==
  {p \in DOMAIN PresetAspectRatios :
     aspectRatio.type = "preset" /\ aspectRatio.value = PresetAspectRatios[p].value}

\* The text is a whole number greater than zero.
PositiveText(txt) ==
  /\ txt # <<>>
  /\ NonNegativeText(txt)
  /\ \E k \in 1..Len(txt) : Digit(txt[k]) > 0

CropSession == <<crop, zoom, croppedAreaPixels, aspectRatio>>

\* C24: every step that opens the crop view leaves the position at (0,0), the
\* zoom at 1, no rectangle selected and the mode Free with the custom texts
\* 16 and 9; the crop view state changes only by opening or while the view is
\* open; and every crop applyCrop starts uses the rectangle selected since the
\* view was opened, on the item it was opened for.
C24_SessionsStartFresh ==
  [][/\ (~cropModalOpen /\ cropModalOpen') =>
          /\ crop' = NoCrop
          /\ zoom' = 1
          /\ croppedAreaPixels' = NoArea
          /\ aspectRatio' = FreeAspect
     /\ CropSession' # CropSession => cropModalOpen \/ cropModalOpen'
     /\ \A c \in crops' \ crops :
          /\ cropModalOpen
          /\ c.area = croppedAreaPixels /\ c.area # NoArea
          /\ c.index = currentCropIndex]_vars

\* The view has been opened again after a session that had moved the overlay,
\* zoomed, selected a rectangle and left Free mode, and a crop of that earlier
\* session was applied.
C24_ReopenedFresh ==
  /\ cropModalOpen
  /\ opened
  /\ crop = NoCrop /\ zoom = 1 /\ croppedAreaPixels = NoArea
  /\ aspectRatio = FreeAspect
  /\ crops # {}

(* ------------------------------------------------------------- C31, C32 *)

\* The handles created for the item id that are live.
LiveOf(lv, id) == {h \in lv : h.owner = id}

\* C31: a successful applyCrop leaves the cropped item's quality, requested
\* width and requested height as they were, and leaves every other item with
\* its fields and its live handles, the registry length and the registry
\* order as they were.
C31_CropFrame ==
  [][\A c \in crops :
       Cropped(c) =>
         /\ Len(images') = Len(images)
         /\ \A k \in 1..Len(images) :
              IF images[k].kind = "item" /\ images[k].id = c.owner
                THEN /\ images'[k].kind = "item"
                     /\ images'[k].id = c.owner
                     /\ images'[k].quality = images[k].quality
                     /\ images'[k].width = images[k].width
                     /\ images'[k].height = images[k].height
                ELSE images'[k] = images[k]
         /\ \A id \in ItemIds \ {c.owner} : LiveOf(live', id) = LiveOf(live, id)]_vars

\* The final artifacts the item id holds in the registry arr.
FinalOf(arr, id) == {arr[k].compressed : k \in PositionsOf(arr, id)} \ {NoBlob}

\* C32: the final artifact of an item is set or replaced only in a
\* step in which an explicit compress completes successfully, and is cleared
\* only in a step in which a crop completes successfully or an entry is
\* removed: no edit, timer fire, preview result, preview failure or compress
\* failure sets or clears it.
C32_FinalChangesByCompressCropRemove ==
  [][\A id \in ItemIds :
       FinalOf(images', id) # FinalOf(images, id) =>
         IF FinalOf(images', id) # {}
           THEN \E t \in tasks : t.kind = "final" /\ Delivered(t)
           ELSE \/ \E c \in crops : Cropped(c)
                \/ Len(images') < Len(images)]_vars

\* An item holds a final artifact and displays the result of a preview run
\* that was delivered after it: the preview result left the final artifact.
C32_PreviewKeptFinal ==
  /\ ~crashed
  /\ \E k \in Cards(images) :
       /\ images[k].compressed # NoBlob
       /\ images[k].compressedPreview.kind = "out"
       /\ images[k].compressedPreview.ref # images[k].compressed.task

====
